---- MODULE Spec2Model ----
(***************************************************************************)
(* State-machine model of sigpy/alg.py: the iteration engine Alg (init,    *)
(* update, done, cleanup under a device context) and the seven solvers     *)
(* built on it.  Arrays are vectors of exact rationals; norm() and **0.5   *)
(* produce symbolic square roots, so `== 0` tests are exact.               *)
(***************************************************************************)
EXTENDS Integers, Sequences, FiniteSets, TLC

VARIABLES
    alg,       \* the constructor's arguments (never reassigned)
    phase,     \* "new", "inited", "failed" (_init raised) or "cleaned"
    iter,      \* self.iter
    pbar,      \* the progress bar: "none", "open" or "closed"
    ctx,       \* stack of entered device contexts, innermost last
    ambient,   \* the caller's device contexts when the solver was built
    hookCtx,   \* the device contexts in force while the last hook ran
    last,      \* the last engine call: "none", "init", "update", "done", "cleanup"
    outcome,   \* how it ended: "ok" or the error that propagated
    doneRet,   \* the value done() returned, when it was the last call
    returned,  \* update() calls that returned normally since the last init()
    runs,      \* init() calls made so far
    updates,   \* update() calls made so far
    st         \* the solver's attributes

vars == <<alg, phase, iter, pbar, ctx, ambient, hookCtx, last, outcome,
          doneRet, returned, runs, updates, st>>

\* ---------------------------------------------------------------- bounds
\* Largest max_iter a solver is constructed with.
MaxIter == 3
\* update() calls the caller makes on one solver object beyond max_iter.
ExtraUpdates == 1
\* init() calls the caller makes on one solver object.
MaxRuns == 2

\* ------------------------------------------------- exact rational numbers
\* A rational is <<n, d>> with d > 0 and gcd(n, d) = 1.
Abs(i) == IF i < 0 THEN -i ELSE i

RECURSIVE GCD(_, _)
GCD(a, b) == IF b = 0 THEN a ELSE GCD(b, a % b)

\* d = 0 gives the floating-point specials: <<1, 0>> is +inf, <<-1, 0>> is
\* -inf and <<0, 0>> is nan, and the operations below propagate them.
Rat(n, d) ==
    LET s == IF d < 0 THEN -1 ELSE 1
        g == IF n = 0 /\ d = 0 THEN 1 ELSE GCD(Abs(n), Abs(d))
    IN  <<(s * n) \div g, (s * d) \div g>>

Q(i) == <<i, 1>>
Zero == Q(0)
One == Q(1)
\* Sums go over the least common denominator and products cancel across
\* first, which keeps the intermediate integers small.
QAdd(a, b) ==
    LET g == IF a[2] = 0 \/ b[2] = 0 THEN 1 ELSE GCD(a[2], b[2])
    IN  Rat(a[1] * (b[2] \div g) + b[1] * (a[2] \div g), (a[2] \div g) * b[2])
QNeg(a) == <<-a[1], a[2]>>
QSub(a, b) == QAdd(a, QNeg(b))
QMul(a, b) ==
    LET g == IF a[1] = 0 \/ b[2] = 0 THEN 1 ELSE GCD(Abs(a[1]), b[2])
        h == IF b[1] = 0 \/ a[2] = 0 THEN 1 ELSE GCD(Abs(b[1]), a[2])
    IN  Rat((a[1] \div g) * (b[1] \div h), (a[2] \div h) * (b[2] \div g))
QDiv(a, b) == QMul(a, Rat(b[2], b[1]))
QLt(a, b) == a[1] * b[2] < b[1] * a[2]
QAbs(a) == <<Abs(a[1]), a[2]>>
QSign(a) == IF a[1] > 0 THEN One ELSE IF a[1] < 0 THEN Q(-1) ELSE Zero

\* Integer square root of a perfect square; IsSquare tells whether it is one.
IsSquare(n) == n >= 0 /\ \E k \in 0..n : k * k = n
ISqrt(n) == CHOOSE k \in 0..n : k * k = n
QIsSquare(a) == IsSquare(a[1]) /\ IsSquare(a[2])
QSqrt(a) == <<ISqrt(a[1]), ISqrt(a[2])>>

\* Scalars that may be +infinity (np.infty) or a square root:
\* [t |-> "num", v |-> q] is q, [t |-> "sqrt", v |-> q] is sqrt(q),
\* [t |-> "inf"] is +infinity, [t |-> "absent"] an attribute that is not set
\* (not yet assigned, or removed by del).
Num(q) == [t |-> "num", v |-> q]
Inf == [t |-> "inf", v |-> Zero]
Absent == [t |-> "absent", v |-> Zero]
\* s ** 0.5
Pow05(s) == IF s.t = "inf" THEN Inf ELSE [t |-> "sqrt", v |-> s.v]
\* s == 0
IsZero(s) == s.t \in {"num", "sqrt"} /\ s.v = Zero

\* ---------------------------------------------------------------- arrays
\* util.dot, util.norm, util.axpy, util.xpay on vectors of rationals.
RECURSIVE SumTo(_, _)
SumTo(f, n) == IF n = 0 THEN Zero ELSE QAdd(SumTo(f, n - 1), f[n])

Dot(u, v) == SumTo([i \in 1..Len(u) |-> QMul(u[i], v[i])], Len(u))
Norm(v) == [t |-> "sqrt", v |-> Dot(v, v)]
VAdd(u, v) == [i \in 1..Len(u) |-> QAdd(u[i], v[i])]
VSub(u, v) == [i \in 1..Len(u) |-> QSub(u[i], v[i])]
VScale(a, v) == [i \in 1..Len(v) |-> QMul(a, v[i])]
\* axpy(y, a, x): y += a * x
Axpy(y, a, x) == VAdd(y, VScale(a, x))
\* xpay(y, a, x): y = x + a * y
Xpay(y, a, x) == VAdd(x, VScale(a, y))
\* A linear map given by its matrix (a sequence of rows).
MatVec(M, v) == [i \in 1..Len(M) |-> Dot(M[i], v)]
\* y / norm(y) for a one-element array with y # 0.
DivByNorm(y) == [i \in 1..Len(y) |-> QSign(y[i])]

Vec1(a) == <<Q(a)>>
Vec2(a, b) == <<Q(a), Q(b)>>
Mat1(a) == <<Vec1(a)>>
Mat2(a, b, c, d) == <<Vec2(a, b), Vec2(c, d)>>

\* ------------------------------------------------------ caller's operators
\* The operators a caller passes in are opaque to the solvers; the model uses
\* these concrete ones.  Any call of one may raise.

\* prox of lam * |.|: soft thresholding, elementwise.
SoftThreshold(lam, v) ==
    [i \in 1..Len(v) |->
        IF QLt(lam, QAbs(v[i])) THEN QMul(QSign(v[i]), QSub(QAbs(v[i]), lam))
        ELSE Zero]
\* prox of the conjugate of |.|: projection on [-1, 1], elementwise.
Clamp(v) ==
    [i \in 1..Len(v) |->
        IF QLt(One, v[i]) THEN One ELSE IF QLt(v[i], Q(-1)) THEN Q(-1) ELSE v[i]]
\* prox of tau * (1/2) x^2: shrinkage by 1 / (1 + tau).
Shrink(tau, v) == [i \in 1..Len(v) |-> QDiv(v[i], QAdd(One, tau))]
\* gradf: "id" is the gradient of (1/2)|x|^2, "twice" that of |x|^2.
ApplyGradf(name, x) == IF name = "id" THEN x ELSE VScale(Q(2), x)
\* A preconditioner: "half" scales by 1/2.
ApplyP(name, r) == VScale(Rat(1, 2), r)

\* What a hook hands back: the solver's attributes and how the hook ended.
Ret(s, o) == [st |-> s, out |-> o]

\* ------------------------------------------------------------ PowerMethod
PM_init(a, s, f) == Ret([s EXCEPT !.max_eig = Inf], "ok")

PM_update(a, s, f) ==
    IF f = 1 THEN Ret(s, "raised by A")
    ELSE LET y == MatVec(a.A, s.x)
         IN  Ret([s EXCEPT !.max_eig = Norm(y), !.x = DivByNorm(y)], "ok")

\* ---------------------------------------------------- ProximalPointMethod
PPM_update(a, s, f) ==
    IF f = 1 THEN Ret(s, "raised by proxf")
    ELSE Ret([s EXCEPT !.x = SoftThreshold(a.alpha, s.x)], "ok")

\* --------------------------------------------------------- GradientMethod
\* Modelled with accelerate = False in every configuration: the momentum
\* coefficient t is irrational after one step.  x_old = <<>> stands for the
\* attribute not being set.
GM_uses_x_old(a) == a.accelerate \/ a.proxg # "none"

\* x_init is no attribute: it keeps the value x had when init() ran.
GM_init(a, s, f) ==
    Ret([s EXCEPT !.x_old = IF GM_uses_x_old(a) THEN s.x ELSE @,
                  !.residual = Inf, !.x_init = s.x], "ok")

\* Faulty variant: the step goes up the gradient.
GM_step_ascent(x, alpha, gradf_x) == Axpy(x, alpha, gradf_x)

\* x after the gradient step of line 164.
GM_step(x, alpha, gradf_x) == Axpy(x, QNeg(alpha), gradf_x)

\* The residual of lines 174-177.
GM_residual(a, x, x_old, gradf_x) ==
    IF GM_uses_x_old(a)
    THEN [t |-> "sqrt", v |-> QDiv(Dot(VSub(x, x_old), VSub(x, x_old)), a.alpha)]
    ELSE Norm(gradf_x)

GM_update(a, s, f) ==
    LET s1 == IF GM_uses_x_old(a) THEN [s EXCEPT !.x_old = s.x] ELSE s
        gradf_x == ApplyGradf(a.gradf, s1.x)
        s2 == [s1 EXCEPT !.x = GM_step(s1.x, a.alpha, gradf_x)]
        s3 == IF a.proxg # "none"
              THEN [s2 EXCEPT !.x = SoftThreshold(a.alpha, s2.x)] ELSE s2
    IN  IF f = 1 THEN Ret(s1, "raised by gradf")
        ELSE IF f = 2 /\ a.proxg # "none" THEN Ret(s2, "raised by proxg")
        ELSE Ret([s3 EXCEPT !.residual =
                      GM_residual(a, s3.x, s3.x_old, gradf_x)], "ok")

GM_done(a, s, it) == it >= a.max_iter \/ IsZero(s.residual)

GM_cleanup(a, s) ==
    IF GM_uses_x_old(a) THEN Ret([s EXCEPT !.x_old = <<>>], "ok") ELSE Ret(s, "ok")

\* ---------------------------------------------------------- NewtonsMethod
\* hessf(x) is the constant matrix a.H, gradf(x) = H x - c, and proxHg(H, v)
\* solves H s = v (g = 0); H is 1-by-1.
NM_direction(a, x) ==
    LET Hx == MatVec(a.H, x)
        gradf_x == VSub(Hx, a.c)
        v == VSub(Hx, gradf_x)
        s == [i \in 1..Len(v) |-> QDiv(v[i], a.H[1][1])]
    IN  VSub(s, x)

\* Line 320 reads the name `alpha`, which is bound nowhere: not in _update,
\* not on self, not in the module.  The statement raises NameError before x
\* is touched.
NM_step(a, s, d) == Ret(s, "NameError")

NM_update(a, s, f) ==
    IF f = 1 THEN Ret(s, "raised by hessf")
    ELSE LET d == NM_direction(a, s.x)
             s1 == [s EXCEPT !.lamda = Pow05(Num(Dot(d, MatVec(a.H, d))))]
         IN  NM_step(a, s1, d)

\* ----------------------------------------------------------------- AltMin
\* min1 and min2 work on the caller's blocks v1, v2; `calls` logs the
\* closure calls made since init().
AM_min1(s) == [s EXCEPT !.calls = Append(@, "min1"), !.v1 = s.v2 + 1]
AM_min2(s) == [s EXCEPT !.calls = Append(@, "min2"), !.v2 = s.v1]

AM_init(a, s, f) == Ret([s EXCEPT !.calls = <<>>], "ok")

\* Faulty variant: the closures are called in the other order.
AM_update_swapped(a, s, f) ==
    IF f = 1 THEN Ret([s EXCEPT !.calls = Append(@, "min2")], "raised by min2")
    ELSE IF f = 2
    THEN Ret([AM_min2(s) EXCEPT !.calls = Append(@, "min1")], "raised by min1")
    ELSE Ret(AM_min1(AM_min2(s)), "ok")

AM_update(a, s, f) ==
    IF f = 1 THEN Ret([s EXCEPT !.calls = Append(@, "min1")], "raised by min1")
    ELSE IF f = 2
    THEN Ret([AM_min1(s) EXCEPT !.calls = Append(@, "min2")], "raised by min2")
    ELSE Ret(AM_min2(AM_min1(s)), "ok")

\* ------------------------------------------------------ ConjugateGradient
\* The arrays live in named buffers so that aliasing shows: "b" is the
\* caller's b, "zbuf" the array P(r) returned in _init, "pbuf" the copy made
\* at line 226.  self.r, self.p (and the local z of _init, kept as s.z) hold
\* the name of the buffer they refer to, "none" when the attribute is unset.
Buf(s, ref) == s[ref]
WriteBuf(s, ref, v) == [s EXCEPT ![ref] = v]

\* Line 225: p is a fresh copy of z only when max_iter > 1.
CG_copies_p(a) == a.max_iter > 1

CG_init(a, s, f) ==
    IF f = 1 THEN Ret(s, "raised by A")
    ELSE
    LET s1 == [s EXCEPT !.b = VSub(s.b, MatVec(a.A, s.x)), !.r = "b"]
        zref == IF a.P = "none" THEN "b" ELSE "zbuf"
        s2 == IF a.P = "none" THEN s1
              ELSE [s1 EXCEPT !.zbuf = ApplyP(a.P, s1.b)]
        s3 == IF CG_copies_p(a)
              THEN [s2 EXCEPT !.pbuf = Buf(s2, zref), !.p = "pbuf", !.z = zref]
              ELSE [s2 EXCEPT !.p = zref, !.z = zref]
        rz == Num(Dot(Buf(s3, s3.r), Buf(s3, zref)))
    IN  IF f = 2 /\ a.P # "none" THEN Ret(s1, "raised by P")
        ELSE Ret([s3 EXCEPT !.zero_gradient = FALSE, !.rzold = rz,
                            !.residual = Pow05(rz)], "ok")

\* Faulty variant: the early return without the flag.
CG_zero_curvature_unflagged(s) == Ret(s, "ok")

\* Lines 239-241: the zero-curvature return.
CG_zero_curvature(s) == Ret([s EXCEPT !.zero_gradient = TRUE], "ok")

\* Faulty variant: the last permitted update advances r, p and rzold too.
CG_advances_last_too(it, max_iter) == it <= max_iter - 1

\* Line 246: whether this update also advances r, p and rzold.
CG_advances(it, max_iter) == it < max_iter - 1

\* Faulty variant: the residual moves the wrong way.
CG_advance_r_plus(s, alpha, Ap) ==
    WriteBuf(s, s.r, Axpy(Buf(s, s.r), alpha, Ap))

\* Line 247: r -= alpha * Ap, written into the buffer self.r names.
CG_advance_r(s, alpha, Ap) ==
    WriteBuf(s, s.r, Axpy(Buf(s, s.r), QNeg(alpha), Ap))

\* Lines 254-259: beta, the new direction written into the buffer self.p
\* names, and rzold.
CG_advance_p(s, z, rznew) ==
    [WriteBuf(s, s.p, Xpay(Buf(s, s.p), QDiv(rznew, s.rzold.v), z))
        EXCEPT !.rzold = Num(rznew)]

\* Lines 249-259, with r already advanced.
CG_refresh(a, s) ==
    LET z == IF a.P # "none" THEN ApplyP(a.P, Buf(s, s.r)) ELSE Buf(s, s.r)
    IN  CG_advance_p(s, z, Dot(Buf(s, s.r), z))

\* Line 261.
CG_set_residual(s) == Ret([s EXCEPT !.residual = Pow05(s.rzold)], "ok")

\* Lines 246-261, after x has moved.
CG_tail(a, s, it, alpha, Ap) ==
    IF CG_advances(it, a.max_iter)
    THEN CG_set_residual(CG_refresh(a, CG_advance_r(s, alpha, Ap)))
    ELSE CG_set_residual(s)

\* Lines 243-261.
CG_step(a, s, it, alpha, Ap) ==
    CG_tail(a, [s EXCEPT !.alpha = Num(alpha),
                         !.x = Axpy(s.x, alpha, Buf(s, s.p))], it, alpha, Ap)

\* Lines 237-261.
CG_curvature(a, s, it, Ap, pAp) ==
    IF pAp = Zero THEN CG_zero_curvature(s)
    ELSE CG_step(a, s, it, QDiv(s.rzold.v, pAp), Ap)

\* Lines 236-261.
CG_with_Ap(a, s, it, Ap) == CG_curvature(a, s, it, Ap, Dot(Buf(s, s.p), Ap))

\* The call of A at line 236 may raise (f = 1); the preconditioner is taken
\* to raise only in _init.
CG_update(a, s, it, f) ==
    IF f = 1 THEN Ret(s, "raised by A")
    ELSE CG_with_Ap(a, s, it, MatVec(a.A, Buf(s, s.p)))

CG_done(a, s, it) ==
    it >= a.max_iter \/ s.zero_gradient \/ IsZero(s.residual)

CG_cleanup(a, s) ==
    Ret([s EXCEPT !.r = "none", !.p = "none", !.rzold = Absent], "ok")

\* ----------------------------------------------- PrimalDualHybridGradient
\* A is a 1-by-1 matrix (AH its transpose), proxfc = Clamp, proxg = Shrink,
\* tau and sigma are scalars, so amin(abs(tau)) is |tau|.  u_old = <<>> stands
\* for the snapshot buffers not being set.
PDHG_init(a, s, f) ==
    Ret([s EXCEPT !.x_ext = s.x, !.u_old = s.u, !.x_old = s.x], "ok")

\* The quantity under the square root at line 392 or 396 (1 in the else branch).
PDHG_radicand(a, s) ==
    IF QLt(Zero, a.gamma_primal) /\ a.gamma_dual = Zero
    THEN QAdd(One, QMul(Q(2), QMul(a.gamma_primal, QAbs(s.tau))))
    ELSE IF a.gamma_primal = Zero /\ QLt(Zero, a.gamma_dual)
    THEN QAdd(One, QMul(Q(2), QMul(a.gamma_dual, QAbs(s.sigma))))
    ELSE One

\* Faulty variant: theta = 0 in the branch without adaptation.
PDHG_theta_zero(a, s) ==
    IF QLt(Zero, a.gamma_primal) /\ a.gamma_dual = Zero
    THEN QDiv(One, QSqrt(PDHG_radicand(a, s)))
    ELSE IF a.gamma_primal = Zero /\ QLt(Zero, a.gamma_dual)
    THEN QDiv(One, QSqrt(PDHG_radicand(a, s)))
    ELSE Zero

\* Lines 391-400: theta.
PDHG_theta(a, s) ==
    IF QLt(Zero, a.gamma_primal) /\ a.gamma_dual = Zero
    THEN QDiv(One, QSqrt(PDHG_radicand(a, s)))
    ELSE IF a.gamma_primal = Zero /\ QLt(Zero, a.gamma_dual)
    THEN QDiv(One, QSqrt(PDHG_radicand(a, s)))
    ELSE One

\* Lines 391-400: the step sizes after the adaptation.
PDHG_steps(a, s, theta) ==
    IF QLt(Zero, a.gamma_primal) /\ a.gamma_dual = Zero
    THEN [s EXCEPT !.tau = QMul(s.tau, theta), !.sigma = QDiv(s.sigma, theta)]
    ELSE IF a.gamma_primal = Zero /\ QLt(Zero, a.gamma_dual)
    THEN [s EXCEPT !.tau = QDiv(s.tau, theta), !.sigma = QMul(s.sigma, theta)]
    ELSE s

PDHG_update(a, s, f) ==
    LET s1 == [s EXCEPT !.u_old = s.u, !.x_old = s.x]
        s2 == [s1 EXCEPT !.u = Clamp(VAdd(s1.u, VScale(s1.sigma, MatVec(a.A, s1.x_ext))))]
        s3 == [s2 EXCEPT !.x = Shrink(s2.tau, VSub(s2.x, VScale(s2.tau, MatVec(a.A, s2.u))))]
        theta == PDHG_theta(a, s3)
        s4 == PDHG_steps(a, s3, theta)
    IN  IF f = 1 THEN Ret(s1, "raised by A")
        ELSE IF f = 2 THEN Ret(s2, "raised by proxg")
        ELSE Ret([s4 EXCEPT !.theta = Num(theta),
                      !.x_ext = VAdd(s4.x, VScale(theta, VSub(s4.x, s4.x_old)))], "ok")

PDHG_cleanup(a, s) ==
    Ret([s EXCEPT !.x_ext = <<>>, !.u_old = <<>>, !.x_old = <<>>], "ok")

\* ----------------------------------------------------- the solver's hooks
\* Dynamic dispatch of _init, _update, _done, _cleanup on the solver's class.
\* f names the operator call that raises in this phase (0: none does).
Hook_init(a, s, f) ==
    CASE a.kind = "PowerMethod" -> PM_init(a, s, f)
      [] a.kind = "GradientMethod" -> GM_init(a, s, f)
      [] a.kind = "ConjugateGradient" -> CG_init(a, s, f)
      [] a.kind = "PrimalDualHybridGradient" -> PDHG_init(a, s, f)
      [] a.kind = "AltMin" -> AM_init(a, s, f)
      [] OTHER -> Ret(s, "ok")

Hook_update(a, s, it, f) ==
    CASE a.kind = "PowerMethod" -> PM_update(a, s, f)
      [] a.kind = "ProximalPointMethod" -> PPM_update(a, s, f)
      [] a.kind = "GradientMethod" -> GM_update(a, s, f)
      [] a.kind = "ConjugateGradient" -> CG_update(a, s, it, f)
      [] a.kind = "NewtonsMethod" -> NM_update(a, s, f)
      [] a.kind = "PrimalDualHybridGradient" -> PDHG_update(a, s, f)
      [] a.kind = "AltMin" -> AM_update(a, s, f)

\* Faulty variant: off by one in the default predicate.
Alg_done_strict(it, max_iter) == it > max_iter

\* Alg._done, lines 28-29.
Alg_done_default(it, max_iter) == it >= max_iter

Hook_done(a, s, it) ==
    CASE a.kind = "GradientMethod" -> GM_done(a, s, it)
      [] a.kind = "ConjugateGradient" -> CG_done(a, s, it)
      [] OTHER -> Alg_done_default(it, a.max_iter)

Hook_cleanup(a, s) ==
    CASE a.kind = "GradientMethod" -> GM_cleanup(a, s)
      [] a.kind = "ConjugateGradient" -> CG_cleanup(a, s)
      [] a.kind = "PrimalDualHybridGradient" -> PDHG_cleanup(a, s)
      [] OTHER -> Ret(s, "ok")

\* How many operator calls of a phase can raise.
InitFaults(a) ==
    IF a.kind = "ConjugateGradient" THEN (IF a.P = "none" THEN 1 ELSE 2) ELSE 0

UpdateFaults(a) ==
    CASE a.kind = "GradientMethod" -> IF a.proxg = "none" THEN 1 ELSE 2
      [] a.kind \in {"PrimalDualHybridGradient", "AltMin"} -> 2
      [] OTHER -> 1

\* The square root at line 392 or 396 is taken exactly: an update is modelled
\* when its radicand is the square of a rational.
PDHG_exact(a, s) ==
    a.kind = "PrimalDualHybridGradient" => QIsSquare(PDHG_radicand(a, s))

\* ------------------------------------------------------- device contexts
\* `with self.device:` pushes the device on entry and pops it on exit,
\* whether the block returns or raises.
Enter(cx, dev) == Append(cx, dev)
Exit(cx) == SubSeq(cx, 1, Len(cx) - 1)
\* Faulty variant: the device is left entered when the block raises.
WithDevice_leaky(cx, dev, out) ==
    IF out = "ok" THEN Exit(Enter(cx, dev)) ELSE Enter(cx, dev)

WithDevice(cx, dev, out) == Exit(Enter(cx, dev))
\* cleanup() calls its hook without entering the device (line 58).
CleanupHookCtx(cx, dev) == cx

\* ------------------------------------------------------------ the engine
\* The caller keeps the order init, {update, done}, cleanup (calls out of
\* that order are outside the contract); it may read done() after cleanup
\* and may run init() again on the same object.

\* Faulty variant: the counter moves although _update raised.
Alg_update_iter_always(it, out) == it + 1

\* Line 46: reached only when _update returned.
Alg_update_iter(it, out) == IF out = "ok" THEN it + 1 ELSE it

\* ConjugateGradient._init consumes the caller's b (line 218); before the
\* caller runs init() on the object again it stores its data in b again.
Caller_refill(a, s) ==
    IF a.kind = "ConjugateGradient" THEN [s EXCEPT !.b = a.b] ELSE s

Alg_init ==
    /\ runs < MaxRuns
    /\ \E f \in 0..InitFaults(alg) :
        LET r == Hook_init(alg, Caller_refill(alg, st), f)
        IN  /\ st' = r.st
            /\ outcome' = r.out
            /\ phase' = IF r.out = "ok" THEN "inited" ELSE "failed"
            /\ ctx' = WithDevice(ctx, alg.device, r.out)
    /\ pbar' = IF alg.progress_bar THEN "open" ELSE pbar
    /\ iter' = 0
    /\ hookCtx' = Enter(ctx, alg.device)
    /\ last' = "init"
    /\ returned' = 0
    /\ runs' = runs + 1
    /\ doneRet' = FALSE
    /\ UNCHANGED <<alg, ambient, updates>>

Alg_update ==
    /\ phase = "inited"
    /\ updates < alg.max_iter + ExtraUpdates
    /\ PDHG_exact(alg, st)
    /\ \E f \in 0..UpdateFaults(alg) :
        LET r == Hook_update(alg, st, iter, f)
        IN  /\ st' = r.st
            /\ outcome' = r.out
            /\ iter' = Alg_update_iter(iter, r.out)
            /\ returned' = IF r.out = "ok" THEN returned + 1 ELSE returned
            /\ ctx' = WithDevice(ctx, alg.device, r.out)
    /\ hookCtx' = Enter(ctx, alg.device)
    /\ last' = "update"
    /\ updates' = updates + 1
    /\ doneRet' = FALSE
    /\ UNCHANGED <<alg, ambient, phase, pbar, runs>>

Alg_done ==
    /\ phase \in {"inited", "cleaned"}
    /\ doneRet' = Hook_done(alg, st, iter)
    /\ hookCtx' = Enter(ctx, alg.device)
    /\ ctx' = WithDevice(ctx, alg.device, "ok")
    /\ last' = "done"
    /\ outcome' = "ok"
    /\ UNCHANGED <<alg, ambient, phase, iter, pbar, returned, runs, updates, st>>

Alg_cleanup ==
    /\ phase = "inited"
    /\ pbar' = IF alg.progress_bar THEN "closed" ELSE pbar
    /\ LET r == Hook_cleanup(alg, st)
       IN  /\ st' = r.st
           /\ outcome' = r.out
    /\ hookCtx' = CleanupHookCtx(ctx, alg.device)
    /\ phase' = "cleaned"
    /\ last' = "cleanup"
    /\ doneRet' = FALSE
    /\ UNCHANGED <<alg, ambient, iter, ctx, returned, runs, updates>>

\* ------------------------------------------------------ constructed solvers
\* Every configuration carries the arguments of Alg.__init__: max_iter,
\* progress_bar and the device.
\* <<progress_bar, device, the caller's device contexts>>
Envs == {<<TRUE, "cpu", <<>>>>, <<FALSE, "gpu0", <<"gpu1">>>>}

PM_configs ==
    {[kind |-> "PowerMethod", max_iter |-> m, progress_bar |-> e[1], device |-> e[2],
      A |-> A, x |-> x] :
        m \in 0..MaxIter, e \in Envs,
        A \in {Mat1(-2), Mat1(3)}, x \in {Vec1(1), Vec1(-2)}}

PPM_configs ==
    {[kind |-> "ProximalPointMethod", max_iter |-> m, progress_bar |-> e[1],
      device |-> e[2], alpha |-> One, x |-> x] :
        m \in 0..MaxIter, e \in Envs,
        x \in {Vec1(3), Vec1(-1)}}

GM_configs ==
    {[kind |-> "GradientMethod", max_iter |-> m, progress_bar |-> e[1],
      device |-> e[2], gradf |-> g, alpha |-> Q(al), proxg |-> px,
      accelerate |-> FALSE, x |-> Vec1(x)] :
        m \in 0..MaxIter, e \in Envs,
        g \in {"id", "twice"}, al \in -1..3, px \in {"none", "soft"},
        x \in {-2, 0, 1}}

CG_matrices ==
    {Mat1(1), Mat1(2), Mat1(0), Mat2(1, 0, 0, 2), Mat2(2, 1, 1, 2),
     Mat2(1, 0, 0, -1), Mat2(1, 0, 0, 0)}

CG_vectors(n) ==
    IF n = 1 THEN {Vec1(0), Vec1(1), Vec1(-2)}
    ELSE {Vec2(0, 0), Vec2(1, 1), Vec2(1, -1)}

CG_starts(n) == IF n = 1 THEN {Vec1(0), Vec1(1)} ELSE {Vec2(0, 0), Vec2(1, 1)}

CG_configs ==
    {[kind |-> "ConjugateGradient", max_iter |-> m, progress_bar |-> e[1],
      device |-> e[2], A |-> c[1], b |-> c[2], x |-> c[3], P |-> P] :
        m \in 0..MaxIter, e \in Envs, P \in {"none", "half"},
        c \in UNION {{<<A, b, x>> : b \in CG_vectors(Len(A)),
                                    x \in CG_starts(Len(A))} : A \in CG_matrices}}

NM_configs ==
    {[kind |-> "NewtonsMethod", max_iter |-> m, progress_bar |-> e[1],
      device |-> e[2], H |-> H, c |-> c, x |-> x] :
        m \in 0..MaxIter, e \in Envs,
        H \in {Mat1(1), Mat1(2)}, c \in {Vec1(1)}, x \in {Vec1(0), Vec1(3)}}

PDHG_configs ==
    {[kind |-> "PrimalDualHybridGradient", max_iter |-> m, progress_bar |-> e[1],
      device |-> e[2], A |-> Mat1(1), x |-> x, u |-> Vec1(0),
      tau |-> Q(t), sigma |-> Q(sg),
      gamma_primal |-> Q(g[1]), gamma_dual |-> Q(g[2])] :
        m \in 0..MaxIter, e \in Envs,
        x \in {Vec1(2), Vec1(-1)}, t \in {1, 3}, sg \in {1},
        g \in {<<0, 0>>, <<4, 0>>, <<0, 4>>, <<4, 4>>}}

AM_configs ==
    {[kind |-> "AltMin", max_iter |-> m, progress_bar |-> pb, device |-> "cpu"] :
        m \in 0..MaxIter, pb \in BOOLEAN}

\* The attributes __init__ sets; the others are not set yet.
Construct(a) ==
    CASE a.kind = "PowerMethod" -> [x |-> a.x, max_eig |-> Absent]
      [] a.kind = "ProximalPointMethod" -> [x |-> a.x]
      [] a.kind = "GradientMethod" ->
            [x |-> a.x, x_old |-> <<>>, residual |-> Absent, x_init |-> a.x]
      [] a.kind = "ConjugateGradient" ->
            [x |-> a.x, b |-> a.b, zbuf |-> <<>>, pbuf |-> <<>>, r |-> "none",
             z |-> "none", p |-> "none", rzold |-> Inf, residual |-> Absent,
             zero_gradient |-> FALSE, alpha |-> Absent]
      [] a.kind = "NewtonsMethod" -> [x |-> a.x, lamda |-> Inf]
      [] a.kind = "PrimalDualHybridGradient" ->
            [x |-> a.x, u |-> a.u, x_ext |-> <<>>, u_old |-> <<>>, x_old |-> <<>>,
             tau |-> a.tau, sigma |-> a.sigma, theta |-> Absent]
      [] a.kind = "AltMin" -> [calls |-> <<>>, v1 |-> 0, v2 |-> 0]

Init ==
    /\ \/ alg \in PM_configs
       \/ alg \in PPM_configs
       \/ alg \in GM_configs
       \/ alg \in CG_configs
       \/ alg \in NM_configs
       \/ alg \in PDHG_configs
       \/ alg \in AM_configs
    \* a proximal step needs alpha > 0; the steeper gradient keeps |x| small
    /\ alg.kind = "GradientMethod" /\ alg.proxg # "none" => QLt(Zero, alg.alpha)
    /\ alg.kind = "GradientMethod" /\ alg.gradf = "twice" => alg.alpha \in {Q(0), Q(1)}
    /\ st = Construct(alg)
    /\ phase = "new"
    /\ iter = -1
    /\ pbar = "none"
    /\ ambient \in {e[3] : e \in {e \in Envs : e[1] = alg.progress_bar}}
    /\ ctx = ambient
    /\ hookCtx = ambient
    /\ last = "none"
    /\ outcome = "ok"
    /\ doneRet = FALSE
    /\ returned = 0
    /\ runs = 0
    /\ updates = 0

Next == Alg_init \/ Alg_update \/ Alg_done \/ Alg_cleanup

Spec == Init /\ [][Next]_vars

\* ============================================================ properties

\* An update() call has just been made on an initialised solver of `kind`.
UpdateStep(kind) ==
    /\ alg.kind = kind
    /\ phase = "inited"
    /\ last' = "update"
    /\ updates' = updates + 1

\* C1: the iteration counter is 0 right after init() and always equals the
\* number of update() calls that returned normally since that init(): a
\* returning update (also ConjugateGradient's zero-curvature return) adds 1, a
\* raising update adds nothing, done() and cleanup() leave it alone.
IterCountsReturnedUpdates ==
    /\ last = "init" => iter = 0
    /\ phase # "new" => iter = returned

IterCountsReturnedUpdates_witness ==
    /\ alg.kind = "ConjugateGradient"
    /\ st.zero_gradient
    /\ last = "update"
    /\ outcome # "ok"
    /\ iter >= 2

\* C2: once the counter has reached max_iter, done() returns true whatever
\* the residual or zero_gradient is; for the solvers that keep the default
\* predicate done() is true exactly when the counter has reached max_iter.
DoneAtMaxIter ==
    last = "done" =>
        /\ iter >= alg.max_iter => doneRet
        /\ alg.kind \notin {"GradientMethod", "ConjugateGradient"} =>
               (doneRet <=> iter >= alg.max_iter)

DoneAtMaxIter_witness ==
    /\ alg.kind = "ConjugateGradient"
    /\ last = "done"
    /\ iter >= alg.max_iter
    /\ ~st.zero_gradient
    /\ ~IsZero(st.residual)
    /\ doneRet

\* pAp as lines 236-237 compute it from the current direction.
CG_pAp(a, s) == Dot(Buf(s, s.p), MatVec(a.A, Buf(s, s.p)))

\* C3: a ConjugateGradient update that finds pAp = 0 raises nothing, sets
\* zero_gradient and changes nothing else (x, r, p, rzold, residual); the flag
\* stays until the next init(), and every done() while it is set returns true.
ZeroCurvatureIsVoidAndTerminal ==
    /\ [][UpdateStep("ConjugateGradient") /\ outcome' # "raised by A"
            /\ CG_pAp(alg, st) = Zero
            => /\ outcome' = "ok"
               /\ st' = [st EXCEPT !.zero_gradient = TRUE]]_vars
    /\ [][alg.kind = "ConjugateGradient" /\ phase # "new" /\ st.zero_gradient
            /\ last' # "init" => st'.zero_gradient]_vars
    /\ [](alg.kind = "ConjugateGradient" /\ st.zero_gradient /\ last = "done"
            => doneRet)

ZeroCurvatureIsVoidAndTerminal_witness ==
    /\ alg.kind = "ConjugateGradient"
    /\ st.zero_gradient
    /\ iter < alg.max_iter
    /\ ~IsZero(st.residual)
    /\ last = "done"
    /\ doneRet

\* C4: every NewtonsMethod update() whose operators do not raise applies the
\* damped step and returns normally, so the counter advances.
NewtonUpdateReturns ==
    alg.kind = "NewtonsMethod" /\ last = "update" /\ outcome # "raised by hessf"
        => outcome = "ok" /\ iter >= 1

NoStepSizeDriftUnaccelerated ==
    alg.kind = "PrimalDualHybridGradient" /\ alg.gamma_primal = Zero
        /\ alg.gamma_dual = Zero =>
        /\ st.tau = alg.tau
        /\ st.sigma = alg.sigma
        /\ last = "update" /\ outcome = "ok" =>
               /\ st.theta = Num(One)
               /\ st.x_ext = VSub(VScale(Q(2), st.x), st.x_old)

NoStepSizeDriftUnaccelerated_witness ==
    /\ alg.kind = "PrimalDualHybridGradient"
    /\ alg.gamma_primal = Zero
    /\ alg.gamma_dual = Zero
    /\ last = "update"
    /\ outcome = "ok"
    /\ iter >= 2
    /\ st.x # st.x_old

\* A real symmetric positive-definite matrix of size 1 or 2.
IsSPD(M) ==
    IF Len(M) = 1 THEN QLt(Zero, M[1][1])
    ELSE /\ M[1][2] = M[2][1]
         /\ QLt(Zero, M[1][1])
         /\ QLt(Zero, QSub(QMul(M[1][1], M[2][2]), QMul(M[1][2], M[2][1])))

\* ConjugateGradient without preconditioner on an SPD system of size n, once
\* n updates have returned since init().
CG_after_n_updates ==
    /\ alg.kind = "ConjugateGradient"
    /\ alg.P = "none"
    /\ IsSPD(alg.A)
    /\ phase \in {"inited", "cleaned"}
    /\ iter >= Len(alg.A)

\* C7 as stated: then the residual is 0, for every max_iter >= n.
CGConvergesWithinN ==
    CG_after_n_updates /\ alg.max_iter >= Len(alg.A) => IsZero(st.residual)

\* C7 amended: then the residual is 0, for every max_iter >= n + 1.  (With
\* max_iter = n the n-th update is the last permitted one: it moves x and
\* leaves r, rzold and so the residual as they were.)
CGConvergesWithinNBeforeLast ==
    CG_after_n_updates /\ alg.max_iter >= Len(alg.A) + 1 => IsZero(st.residual)

CGConvergesWithinNBeforeLast_witness ==
    /\ CG_after_n_updates
    /\ Len(alg.A) = 2
    /\ alg.max_iter >= 3
    /\ iter = 2
    /\ last = "update"
    /\ ~st.zero_gradient
    /\ IsZero(st.residual)

RECURSIVE QPow(_, _)
QPow(q, k) == IF k = 0 THEN One ELSE QMul(q, QPow(q, k - 1))

\* C8: GradientMethod without acceleration and without proxg on gradf(x) = x:
\* after k returned updates x = (1 - alpha)^k * x_0, x_0 the value at init(),
\* whatever alpha is, and the residual is the norm of x_{k-1}.
GradientIteratesAreGeometric ==
    alg.kind = "GradientMethod" /\ ~alg.accelerate /\ alg.proxg = "none"
        /\ alg.gradf = "id" /\ phase \in {"inited", "cleaned"} =>
        /\ st.x = VScale(QPow(QSub(One, alg.alpha), iter), st.x_init)
        /\ st.residual =
               IF iter = 0 THEN Inf
               ELSE Norm(VScale(QPow(QSub(One, alg.alpha), iter - 1), st.x_init))

GradientIteratesAreGeometric_witness ==
    /\ alg.kind = "GradientMethod"
    /\ alg.proxg = "none"
    /\ alg.gradf = "id"
    /\ alg.alpha = Q(3)
    /\ iter = 3
    /\ st.x_init # Vec1(0)
    /\ st.x = VScale(Q(-8), st.x_init)

\* C9: every AltMin update() that returns has called min1 once and then min2
\* once (so v2 took the value min1 had just given v1); the calls made by k
\* returned updates with none raising are (min1, min2) k times; when min1
\* raises, min2 is not called in that update.
AltMinCallsInOrder ==
    alg.kind = "AltMin" =>
        LET n == Len(st.calls)
        IN  /\ \A i \in 1..n : st.calls[i] = "min2" => i > 1 /\ st.calls[i - 1] = "min1"
            /\ n = 2 * iter =>
                   st.calls = [i \in 1..n |-> IF i % 2 = 1 THEN "min1" ELSE "min2"]
            /\ last = "update" /\ outcome = "ok" =>
                   /\ n >= 2
                   /\ SubSeq(st.calls, n - 1, n) = <<"min1", "min2">>
                   /\ st.v1 = st.v2
            /\ last = "update" /\ outcome = "raised by min1" =>
                   st.calls[n] = "min1"

AltMinCallsInOrder_witness ==
    /\ alg.kind = "AltMin"
    /\ last = "update"
    /\ outcome = "ok"
    /\ iter = 3
    /\ Len(st.calls) = 6

\* C10: ConjugateGradient built with max_iter <= 1: after init() p is the
\* buffer z is (without preconditioner the buffer of r, the caller's b), and
\* no update() after it writes p's or r's buffer or changes rzold.
AliasedDirectionNeverWritten ==
    /\ [](alg.kind = "ConjugateGradient" /\ alg.max_iter <= 1 /\ phase = "inited"
            => /\ st.p = st.z
               /\ alg.P = "none" => st.p = "b" /\ st.r = "b")
    /\ [][UpdateStep("ConjugateGradient") /\ alg.max_iter <= 1
            => /\ st'.b = st.b
               /\ st'.zbuf = st.zbuf
               /\ st'.pbuf = st.pbuf
               /\ st'.r = st.r
               /\ st'.p = st.p
               /\ st'.rzold = st.rzold]_vars

AliasedDirectionNeverWritten_witness ==
    /\ alg.kind = "ConjugateGradient"
    /\ alg.max_iter = 1
    /\ alg.P = "none"
    /\ st.p = "b"
    /\ last = "update"
    /\ iter = 2
    /\ st.x # alg.x

====
